---- MODULE Spec2Model ----
(***************************************************************************)
(* Model of apps/electron/src/main/migrate-config.ts: the synchronizer     *)
(* that merges the legacy configuration tree ~/.craft-agent/ into the      *)
(* canonical tree ~/.ws-workspace/ on every launch.                        *)
(*                                                                         *)
(* The filesystem is one map from absolute paths to nodes; a path is a     *)
(* sequence of names.  One action is one iteration of one loop of the      *)
(* code (one sync unit), so that the states "during" a run are visible.    *)
(***************************************************************************)
EXTENDS Integers, Sequences, FiniteSets, TLC

(***************************************************************************)
(* Bounds of the model.                                                    *)
(***************************************************************************)
\* how many entries of each static list of the code take part in a run
NumTopLevelFiles == 1
NumTopLevelDirs == 1
NumWsFiles == 1
NumSubdirs == 1
\* names that may occur under workspaces/, and under a sub-collection
NumSlugs == 2
NumEntries == 2
\* modification times are 1..MaxTime, file sizes 1..MaxSize bytes
MaxTime == 2
MaxSize == 2
\* the clock starts at 1 and advances to at most MaxClock
MaxClock == 2
\* launches of the host application
MaxRuns == 3
\* calls that fail, over all runs
MaxFaults == 1

Min(a, b) == IF a < b THEN a ELSE b
Take(s, n) == SubSeq(s, 1, Min(n, Len(s)))
Range(s) == {s[i] : i \in 1..Len(s)}

(***************************************************************************)
(* The static tables of the code.                                          *)
(***************************************************************************)
LEGACY_DIR == <<".craft-agent">>
CONFIG_DIR == <<".ws-workspace">>

topLevelFiles ==
  Take(<<"credentials.enc", "config.json", "preferences.json", "drafts.json",
         "config-defaults.json">>, NumTopLevelFiles)

topLevelDirs ==
  Take(<<"permissions", "themes", "tool-icons", "docs", "release-notes", "logs",
         "mcp-servers">>, NumTopLevelDirs)

wsFiles == Take(<<"config.json", "hooks.json", "views.json", "projects.json">>, NumWsFiles)

wsSubdirs ==
  Take(<<"sessions", "sources", "skills", "labels", "scripts", "statuses">>, NumSubdirs)

\* names that the trees of the model may hold besides the planned ones
SlugNames == Take(<<"acme", "beta", "gamma">>, NumSlugs)
EntryNames == Take(<<"A", "B", "C">>, NumEntries)
ChildName == "default.json"    \* a file inside a top-level directory
ExtraName == "notes.md"        \* a workspace file outside the fixed lists

(***************************************************************************)
(* Paths.                                                                  *)
(***************************************************************************)
join(p, name) == Append(p, name)
join2(p, a, b) == Append(Append(p, a), b)
dirname(p) == SubSeq(p, 1, Len(p) - 1)     \* join(p, '..')

IsPrefix(p, q) == Len(p) <= Len(q) /\ SubSeq(q, 1, Len(p)) = p
\* q, which lies at or under `from`, moved to the same place under `to`
Rebase(q, from, to) == to \o SubSeq(q, Len(from) + 1, Len(q))

WsRel(s) ==
  {<<"workspaces", s>>, <<"workspaces", s, "events.jsonl">>, <<"workspaces", s, ExtraName>>}
  \cup {<<"workspaces", s, f>> : f \in Range(wsFiles)}
  \cup {<<"workspaces", s, d>> : d \in Range(wsSubdirs)}
  \cup {<<"workspaces", s, d, e>> : d \in Range(wsSubdirs), e \in Range(EntryNames)}

RelPaths ==
  {<< >>, <<"workspaces">>}
  \cup {<<f>> : f \in Range(topLevelFiles)}
  \cup {<<d>> : d \in Range(topLevelDirs)}
  \cup {<<d, ChildName>> : d \in Range(topLevelDirs)}
  \cup UNION {WsRel(s) : s \in Range(SlugNames)}

LegacyPaths == {LEGACY_DIR \o r : r \in RelPaths}
ConfigPaths == {CONFIG_DIR \o r : r \in RelPaths}
AllPaths == LegacyPaths \cup ConfigPaths

(***************************************************************************)
(* Nodes: what a path holds.  A file has bytes and a modification time;    *)
(* its size is the number of its bytes.                                    *)
(***************************************************************************)
Absent == [kind |-> "none"]
Dir == [kind |-> "dir"]
File(d, t) == [kind |-> "file", data |-> d, mtime |-> t]
Bytes(b, n) == [i \in 1..n |-> b]

(***************************************************************************)
(* The filesystem calls the code uses.  f is a filesystem: a function from *)
(* AllPaths to nodes.                                                      *)
(***************************************************************************)
\* fs.existsSync: never throws; a path outside the modelled trees is absent
existsSync(f, p) == p \in DOMAIN f /\ f[p].kind # "none"

\* fs.statSync(p): mtimeMs, size, isDirectory()
mtimeMs(f, p) == f[p].mtime
size(f, p) == Len(f[p].data)
isDirectory(f, p) == f[p].kind = "dir"

\* fs.readdirSync(p): the names directly under p, here as a set
readdirSync(f, p) ==
  {q[Len(q)] : q \in {x \in DOMAIN f : Len(x) = Len(p) + 1 /\ IsPrefix(p, x) /\ f[x].kind # "none"}}

\* fs.mkdirSync(p, { recursive: true }): p and its missing ancestors
mkdirSync(f, p) ==
  [q \in DOMAIN f |-> IF IsPrefix(q, p) /\ f[q].kind = "none" THEN Dir ELSE f[q]]

\* the existing nodes at and under src
Subtree(f, src) == {q \in DOMAIN f : IsPrefix(src, q) /\ f[q].kind # "none"}

\* (mutant) a file is appended to the one the destination holds
CopyNodesAppend(f, src, dst, done, t) ==
  [q \in DOMAIN f |->
     IF \E s \in done : Rebase(s, src, dst) = q
       THEN LET s == CHOOSE s \in done : Rebase(s, src, dst) = q
            IN  IF f[s].kind = "dir"
                  THEN (IF f[q].kind = "none" THEN Dir ELSE f[q])
                  ELSE File((IF f[q].kind = "file" THEN f[q].data ELSE << >>) \o f[s].data, t)
       ELSE f[q]]

\* (mutant) the copy clears the destination before it writes
CopyNodesFresh(f, src, dst, done, t) ==
  [q \in DOMAIN f |->
     IF \E s \in done : Rebase(s, src, dst) = q
       THEN LET s == CHOOSE s \in done : Rebase(s, src, dst) = q
            IN  IF f[s].kind = "dir" THEN Dir ELSE File(f[s].data, t)
       ELSE IF IsPrefix(dst, q) THEN Absent ELSE f[q]]

\* What fs.cpSync(src, dst[, { recursive: true }]) has written once the nodes
\* `done` of src's subtree are copied: a directory is created if missing, a
\* file is written with the source's bytes.  cpSync is called without
\* preserveTimestamps, so a written file's modification time is the time t
\* of the copy.
CopyNodes(f, src, dst, done, t) ==
  [q \in DOMAIN f |->
     IF \E s \in done : Rebase(s, src, dst) = q
       THEN LET s == CHOOSE s \in done : Rebase(s, src, dst) = q
            IN  IF f[s].kind = "dir"
                  THEN (IF f[q].kind = "none" THEN Dir ELSE f[q])
                  ELSE File(f[s].data, t)
       ELSE f[q]]

\* (mutant) the arguments swapped: the destination is copied over the source
cpSyncSwapped(f, src, dst, t) == CopyNodes(f, dst, src, Subtree(f, dst), t)

\* a successful cpSync copies the whole subtree
cpSync(f, src, dst, t) == CopyNodes(f, src, dst, Subtree(f, src), t)

\* A cpSync that throws has copied part of the subtree: it walks the tree
\* depth first, so what it leaves is closed under parents and has at most
\* one unfinished directory among the children of any directory.  A single
\* file is copied or not (each single copy is atomic).
Unfinished(f, src, done, d) == \E q \in Subtree(f, src) \ done : IsPrefix(d, q)
PartialCopies(f, src) ==
  {done \in SUBSET Subtree(f, src) :
     /\ done # Subtree(f, src)
     /\ \A q \in done : q = src \/ dirname(q) \in done
     /\ \A a, b \in done :
          (a # b /\ a # src /\ dirname(a) = dirname(b)
             /\ Unfinished(f, src, done, a) /\ Unfinished(f, src, done, b)) => FALSE}

(***************************************************************************)
(* What one sync unit did: the filesystem it leaves, what it adds to the   *)
(* count, its outcome, the write calls it made (mkdirSync, cpSync) and     *)
(* the lines it logged.                                                    *)
(***************************************************************************)
Res(f, n, outcome, writes, logs) ==
  [fs |-> f, ret |-> n, outcome |-> outcome, writes |-> writes, logs |-> logs]

\* The I/O failure a unit meets: the call that throws and, for a cpSync (or
\* for the statSync calls of a listing), how far it got.
NoFault == [op |-> "none", done |-> {}]
Fault(op, done) == [op |-> op, done |-> done]
CpFaults(f, src) == {Fault("cp", done) : done \in PartialCopies(f, src)}

(***************************************************************************)
(* syncFile: copy if the target is missing, or if the source is newer.     *)
(***************************************************************************)
\* (mutant) ">=" for ">"
legacyIsNewerOrSame(sourceMtime, targetMtime) == sourceMtime >= targetMtime

\* line 124
legacyIsNewer(sourceMtime, targetMtime) == sourceMtime > targetMtime

syncFileFaults(f, source, target) ==
  IF ~existsSync(f, source) THEN {NoFault}
  ELSE IF ~existsSync(f, target)
    THEN {NoFault} \cup CpFaults(f, source)
         \cup (IF existsSync(f, dirname(target)) THEN {} ELSE {Fault("mkdir", {})})
    ELSE {NoFault, Fault("stat", {})}
         \cup (IF legacyIsNewer(mtimeMs(f, source), mtimeMs(f, target))
                 THEN CpFaults(f, source) ELSE {})

\* (mutant) a target without a source is written again: its time changes
syncFileTouch(f, source, target, t, fault) ==
  IF ~existsSync(f, source)
    THEN (IF existsSync(f, target)
            THEN Res([f EXCEPT ![target] = File(f[target].data, t + 1)], 0, "skip", 1, 0)
            ELSE Res(f, 0, "skip", 0, 0))
  ELSE IF ~existsSync(f, target)
    THEN LET targetDir == dirname(target)
             made == ~existsSync(f, targetDir)
             f1 == IF made THEN mkdirSync(f, targetDir) ELSE f
             w1 == IF made THEN 1 ELSE 0
         IN  CASE fault.op = "mkdir" -> Res(f, 0, "error", 1, 1)
               [] fault.op = "cp" ->
                    Res(CopyNodes(f1, source, target, fault.done, t), 0, "error", w1 + 1, 1)
               [] OTHER -> Res(cpSync(f1, source, target, t), 1, "copy", w1 + 1, 1)
    ELSE IF fault.op = "stat" THEN Res(f, 0, "error", 0, 1)
    ELSE IF legacyIsNewer(mtimeMs(f, source), mtimeMs(f, target))
      THEN (IF fault.op = "cp"
              THEN Res(CopyNodes(f, source, target, fault.done, t), 0, "error", 1, 1)
              ELSE Res(cpSync(f, source, target, t), 1, "overwrite", 1, 1))
      ELSE Res(f, 0, "skip", 0, 0)

syncFile(f, source, target, t, fault) ==
  IF ~existsSync(f, source) THEN Res(f, 0, "skip", 0, 0)
  ELSE IF ~existsSync(f, target)
    THEN LET targetDir == dirname(target)
             made == ~existsSync(f, targetDir)
             f1 == IF made THEN mkdirSync(f, targetDir) ELSE f
             w1 == IF made THEN 1 ELSE 0
         IN  CASE fault.op = "mkdir" -> Res(f, 0, "error", 1, 1)
               [] fault.op = "cp" ->
                    Res(CopyNodes(f1, source, target, fault.done, t), 0, "error", w1 + 1, 1)
               [] OTHER -> Res(cpSync(f1, source, target, t), 1, "copy", w1 + 1, 1)
    ELSE IF fault.op = "stat" THEN Res(f, 0, "error", 0, 1)
    ELSE IF legacyIsNewer(mtimeMs(f, source), mtimeMs(f, target))
      THEN (IF fault.op = "cp"
              THEN Res(CopyNodes(f, source, target, fault.done, t), 0, "error", 1, 1)
              ELSE Res(cpSync(f, source, target, t), 1, "overwrite", 1, 1))
      ELSE Res(f, 0, "skip", 0, 0)

(***************************************************************************)
(* One iteration of the topLevelDirs loop: copy if missing entirely.       *)
(***************************************************************************)
syncTopLevelDirFaults(f, source, target) ==
  IF existsSync(f, source) /\ ~existsSync(f, target)
    THEN {NoFault} \cup CpFaults(f, source) ELSE {NoFault}

\* (mutant) an existing target directory is merged with legacy's
syncTopLevelDirMerge(f, source, target, t, fault) ==
  IF ~existsSync(f, source) THEN Res(f, 0, "skip", 0, 0)
  ELSE IF fault.op = "cp"
    THEN Res(CopyNodes(f, source, target, fault.done, t), 0, "error", 1, 1)
    ELSE Res(cpSync(f, source, target, t), 1, "copy", 1, 1)

syncTopLevelDir(f, source, target, t, fault) ==
  IF ~existsSync(f, source) THEN Res(f, 0, "skip", 0, 0)
  ELSE IF ~existsSync(f, target)
    THEN (IF fault.op = "cp"
            THEN Res(CopyNodes(f, source, target, fault.done, t), 0, "error", 1, 1)
            ELSE Res(cpSync(f, source, target, t), 1, "copy", 1, 1))
    ELSE Res(f, 0, "skip", 0, 0)

(***************************************************************************)
(* syncWorkspaces: the listing, and the copy of a workspace that is        *)
(* missing entirely.                                                       *)
(***************************************************************************)
\* readdirSync(...).filter(isDirectory): an entry whose statSync throws is
\* filtered out like one that is no directory
\* (mutant) the listing is not filtered
workspaceSlugsAll(f, legacyWorkspacesDir, statFailed) == readdirSync(f, legacyWorkspacesDir)

workspaceSlugs(f, legacyWorkspacesDir, statFailed) ==
  {entry \in readdirSync(f, legacyWorkspacesDir) \ statFailed :
     isDirectory(f, join(legacyWorkspacesDir, entry))}

listFaults(f, dir) ==
  {NoFault, Fault("readdir", {})}
  \cup {Fault("stat", S) : S \in (SUBSET readdirSync(f, dir)) \ {{}}}

copyWorkspaceFaults(f, legacyWs) ==
  {NoFault, Fault("mkdir", {})} \cup CpFaults(f, legacyWs)

\* (mutant) the copy is not recursive: the sub-directories arrive empty
copyWorkspaceFlat(f, legacyWs, targetWs, t, fault) ==
  CASE fault.op = "mkdir" -> Res(f, 0, "error", 1, 1)
    [] fault.op = "cp" ->
         Res(CopyNodes(mkdirSync(f, targetWs), legacyWs, targetWs, fault.done, t),
             0, "error", 2, 1)
    [] OTHER ->
         Res(CopyNodes(mkdirSync(f, targetWs), legacyWs, targetWs,
                       {q \in Subtree(f, legacyWs) : Len(q) <= Len(legacyWs) + 1}, t),
             1, "copy", 2, 1)

\* (mutant) the copy of a workspace counts the files and directories copied
copyWorkspaceCountsAll(f, legacyWs, targetWs, t, fault) ==
  CASE fault.op = "mkdir" -> Res(f, 0, "error", 1, 1)
    [] fault.op = "cp" ->
         Res(CopyNodes(mkdirSync(f, targetWs), legacyWs, targetWs, fault.done, t),
             0, "error", 2, 1)
    [] OTHER -> Res(cpSync(mkdirSync(f, targetWs), legacyWs, targetWs, t),
                    Cardinality(Subtree(f, legacyWs)), "copy", 2, 1)

\* (mutant) a missing workspace brings the whole collection over: the copy
\* runs from the legacy `workspaces` directory, not from the workspace
copyWorkspaceCollection(f, legacyWs, targetWs, t, fault) ==
  CASE fault.op = "mkdir" -> Res(f, 0, "error", 1, 1)
    [] fault.op = "cp" ->
         Res(CopyNodes(mkdirSync(f, targetWs), legacyWs, targetWs, fault.done, t),
             0, "error", 2, 1)
    [] OTHER ->
         Res(cpSync(mkdirSync(f, targetWs), dirname(legacyWs), dirname(targetWs), t),
             1, "copy", 2, 1)

copyWorkspace(f, legacyWs, targetWs, t, fault) ==
  CASE fault.op = "mkdir" -> Res(f, 0, "error", 1, 1)
    [] fault.op = "cp" ->
         Res(CopyNodes(mkdirSync(f, targetWs), legacyWs, targetWs, fault.done, t),
             0, "error", 2, 1)
    [] OTHER -> Res(cpSync(mkdirSync(f, targetWs), legacyWs, targetWs, t), 1, "copy", 2, 1)

(***************************************************************************)
(* syncEventsFile: take the larger one.                                    *)
(***************************************************************************)
\* (mutant) ">=" for ">"
legacyIsLargerOrSame(sourceSize, targetSize) == sourceSize >= targetSize

\* (mutant) "#" for ">": a shorter legacy log replaces the canonical one
legacyDiffers(sourceSize, targetSize) == sourceSize # targetSize

\* line 217
legacyIsLarger(sourceSize, targetSize) == sourceSize > targetSize

syncEventsFileFaults(f, source, target) ==
  IF ~existsSync(f, source) THEN {NoFault}
  ELSE IF ~existsSync(f, target) THEN {NoFault} \cup CpFaults(f, source)
  ELSE {NoFault, Fault("stat", {})}
       \cup (IF legacyIsLarger(size(f, source), size(f, target))
               THEN CpFaults(f, source) ELSE {})

\* (mutant) events.jsonl is reconciled like the other files: newer wins
syncEventsFileNewer(f, legacyWs, targetWs, t, fault) ==
  syncFile(f, join(legacyWs, "events.jsonl"), join(targetWs, "events.jsonl"), t, fault)

syncEventsFile(f, legacyWs, targetWs, t, fault) ==
  LET source == join(legacyWs, "events.jsonl")
      target == join(targetWs, "events.jsonl")
  IN  IF ~existsSync(f, source) THEN Res(f, 0, "skip", 0, 0)
      ELSE IF ~existsSync(f, target)
        THEN (IF fault.op = "cp"
                THEN Res(CopyNodes(f, source, target, fault.done, t), 0, "error", 1, 1)
                ELSE Res(cpSync(f, source, target, t), 1, "copy", 1, 1))
      ELSE IF fault.op = "stat" THEN Res(f, 0, "error", 0, 1)
      ELSE IF legacyIsLarger(size(f, source), size(f, target))
        THEN (IF fault.op = "cp"
                THEN Res(CopyNodes(f, source, target, fault.done, t), 0, "error", 1, 1)
                ELSE Res(cpSync(f, source, target, t), 1, "overwrite", 1, 1))
        ELSE Res(f, 0, "skip", 0, 0)

(***************************************************************************)
(* syncSubdirectory: the whole directory if the target lacks it, else the  *)
(* entries the target lacks, one by one.                                   *)
(***************************************************************************)
syncSubdirectoryFaults(f, sourceDir, targetDir) ==
  IF ~existsSync(f, sourceDir) THEN {NoFault}
  ELSE IF ~existsSync(f, targetDir) THEN {NoFault} \cup CpFaults(f, sourceDir)
  ELSE {NoFault, Fault("readdir", {})}

\* (mutant) a sub-collection the target lacks is made, but not filled
syncSubdirectoryShallow(f, sourceDir, targetDir, t, fault) ==
  IF ~existsSync(f, sourceDir) THEN Res(f, 0, "skip", 0, 0)
  ELSE IF ~existsSync(f, targetDir)
    THEN (IF fault.op = "cp"
            THEN Res(CopyNodes(f, sourceDir, targetDir, fault.done, t), 0, "error", 1, 1)
            ELSE Res(mkdirSync(f, targetDir), 1, "copy", 1, 1))
    ELSE IF fault.op = "readdir" THEN Res(f, 0, "error", 0, 1)
    ELSE Res(f, 0, "union", 0, 0)

\* lines 237-254: up to the listing of the entries; "union" says the loop
\* over the entries follows
syncSubdirectory(f, sourceDir, targetDir, t, fault) ==
  IF ~existsSync(f, sourceDir) THEN Res(f, 0, "skip", 0, 0)
  ELSE IF ~existsSync(f, targetDir)
    THEN (IF fault.op = "cp"
            THEN Res(CopyNodes(f, sourceDir, targetDir, fault.done, t), 0, "error", 1, 1)
            ELSE Res(cpSync(f, sourceDir, targetDir, t), 1, "copy", 1, 1))
    ELSE IF fault.op = "readdir" THEN Res(f, 0, "error", 0, 1)
    ELSE Res(f, 0, "union", 0, 0)

\* lines 256-268: one entry of the loop
syncEntryFaults(f, sourceEntry, targetEntry) ==
  IF existsSync(f, targetEntry) THEN {NoFault} ELSE {NoFault} \cup CpFaults(f, sourceEntry)

\* (mutant) an entry is copied whether or not the target has it
syncEntryAlways(f, sourceEntry, targetEntry, t, fault) ==
  IF fault.op = "cp"
    THEN Res(CopyNodes(f, sourceEntry, targetEntry, fault.done, t), 0, "error", 1, 1)
    ELSE Res(cpSync(f, sourceEntry, targetEntry, t), 1, "copy", 1, 1)

\* (mutant) entries are copied only while the target directory is empty
syncEntryIfEmpty(f, sourceEntry, targetEntry, t, fault) ==
  IF readdirSync(f, dirname(targetEntry)) = {}
    THEN (IF fault.op = "cp"
            THEN Res(CopyNodes(f, sourceEntry, targetEntry, fault.done, t), 0, "error", 1, 1)
            ELSE Res(cpSync(f, sourceEntry, targetEntry, t), 1, "copy", 1, 1))
    ELSE Res(f, 0, "skip", 0, 0)

syncEntry(f, sourceEntry, targetEntry, t, fault) ==
  IF ~existsSync(f, targetEntry)
    THEN (IF fault.op = "cp"
            THEN Res(CopyNodes(f, sourceEntry, targetEntry, fault.done, t), 0, "error", 1, 1)
            ELSE Res(cpSync(f, sourceEntry, targetEntry, t), 1, "copy", 1, 1))
    ELSE Res(f, 0, "skip", 0, 0)

(***************************************************************************)
(* The trees a run may find.  A scenario says what each planned path       *)
(* holds on the legacy side ([1]) and on the canonical side ([2]).  Files  *)
(* written by the old build hold byte 1, files written by the new build    *)
(* byte 2, so that a copy shows in the content.  A planned file path holds *)
(* a file or nothing and a planned directory path a directory or nothing;  *)
(* only an entry of legacy's workspaces/ may be a file instead of a        *)
(* directory.  The clock starts at 1, so a modification time of 2 or more  *)
(* lies in the future of the first run.                                    *)
(***************************************************************************)
LFile == {Absent} \cup {File(Bytes(1, 1), t) : t \in 1..MaxTime}
CFile == {Absent} \cup {File(Bytes(2, 1), t) : t \in 1..MaxTime}
LEvents == {Absent} \cup {File(Bytes(1, n), 1) : n \in 1..MaxSize}
CEvents == {Absent} \cup {File(Bytes(2, n), t) : n \in 1..MaxSize, t \in 1..MaxTime}
DirKinds == {"none", "empty", "full"}
NoSub == [has |-> FALSE, names |-> {}]
Sub(S) == [has |-> TRUE, names |-> S]
SubOpts == {NoSub} \cup {Sub(S) : S \in SUBSET Range(EntryNames)}

Side(p) == IF IsPrefix(LEGACY_DIR, p) THEN 1 ELSE 2
RelOf(p) == SubSeq(p, Len(LEGACY_DIR) + 1, Len(p))
OwnFile(p) == File(Bytes(Side(p), 1), 1)
DirIf(b) == IF b THEN Dir ELSE Absent

\* what path p holds in scenario sc, before looking at its ancestors
RawNode(sc, p) ==
  LET r == RelOf(p)
      i == Side(p)
  IN  CASE Len(r) = 0 -> sc.roots[i]
        [] Len(r) = 1 /\ r[1] = "workspaces" -> sc.wsdir[i]
        [] Len(r) = 1 /\ r[1] \in Range(topLevelFiles) -> sc.top[r[1]][i]
        [] Len(r) = 1 /\ r[1] \in Range(topLevelDirs) -> DirIf(sc.dirs[r[1]][i] # "none")
        [] Len(r) = 2 /\ r[1] \in Range(topLevelDirs) ->
             IF sc.dirs[r[1]][i] = "full" THEN OwnFile(p) ELSE Absent
        [] Len(r) = 2 /\ r[1] = "workspaces" ->
             CASE sc.slug[r[2]][i] = "dir" -> Dir
               [] sc.slug[r[2]][i] = "file" -> OwnFile(p)
               [] OTHER -> Absent
        [] Len(r) = 3 /\ r[3] = "events.jsonl" -> sc.events[r[2]][i]
        [] Len(r) = 3 /\ r[3] = ExtraName -> IF i = 1 THEN OwnFile(p) ELSE Absent
        [] Len(r) = 3 /\ r[3] \in Range(wsFiles) -> sc.wsfile[r[2]][r[3]][i]
        [] Len(r) = 3 /\ r[3] \in Range(wsSubdirs) -> DirIf(sc.sub[r[2]][r[3]][i].has)
        [] Len(r) = 4 ->
             IF r[4] \in sc.sub[r[2]][r[3]][i].names
               THEN OwnFile(p) ELSE Absent

\* a path holds something only under directories
TreeOf(sc) ==
  [p \in AllPaths |->
     IF \A a \in AllPaths : (IsPrefix(a, p) /\ a # p) => RawNode(sc, a).kind = "dir"
       THEN RawNode(sc, p) ELSE Absent]

\* the options of each part of a scenario, and the choice made for the
\* parts a family of scenarios does not vary
AllRoots == {Absent, Dir} \X {Absent, Dir}
AllTop == [Range(topLevelFiles) -> LFile \X CFile]
AllDirs == [Range(topLevelDirs) -> {"none", "full"} \X DirKinds]
AllWsdir == {Absent, Dir} \X {Absent, Dir}
AllSlug == [Range(SlugNames) -> {"none", "file", "dir"} \X {"none", "dir"}]
AllWsfile == [Range(wsFiles) -> LFile \X CFile]
AllEvents == LEvents \X CEvents
AllSub == [Range(wsSubdirs) -> SubOpts \X SubOpts]

SomeRoots == {<<Dir, Dir>>}
SomeTop == {[f \in Range(topLevelFiles) |-> <<File(Bytes(1, 1), 1), Absent>>]}
SomeDirs == {[d \in Range(topLevelDirs) |-> <<"full", "empty">>]}
SomeWsdir == {<<Dir, Dir>>}
WsdirOrNot == {<<Dir, Dir>>, <<Absent, Absent>>}
SomeSlug ==
  {[s \in Range(SlugNames) |-> IF s = SlugNames[1] THEN <<"dir", c>> ELSE <<"none", "none">>] :
     c \in {"none", "dir"}}
SomeWsfile ==
  [f \in Range(wsFiles) |-> <<File(Bytes(1, 1), MaxTime), File(Bytes(2, 1), 1)>>]
SomeEvents == <<File(Bytes(1, MaxSize), 1), File(Bytes(2, 1), MaxTime)>>
SomeSub == [d \in Range(wsSubdirs) |-> <<Sub(Range(EntryNames)), Sub({EntryNames[1]})>>]

\* the first workspace varies, the others hold the fixed choice
First(x, S) == {[s \in Range(SlugNames) |-> IF s = SlugNames[1] THEN v ELSE x] : v \in S}

Scenarios(roots, top, dirs, wsdir, slug, wsfile, events, sub) ==
  [roots : roots, top : top, dirs : dirs, wsdir : wsdir, slug : slug,
   wsfile : wsfile, events : events, sub : sub]

\* four families: the top level varies (legacy may be empty); the
\* workspaces collection varies;
\* the files of a workspace vary; its sub-collections vary
InitialScenarios ==
  Scenarios(AllRoots, AllTop, AllDirs, WsdirOrNot, SomeSlug,
            {[s \in Range(SlugNames) |-> SomeWsfile]},
            {[s \in Range(SlugNames) |-> SomeEvents]},
            {[s \in Range(SlugNames) |-> SomeSub]})
  \cup
  Scenarios(SomeRoots, SomeTop, SomeDirs, AllWsdir, AllSlug,
            {[s \in Range(SlugNames) |-> SomeWsfile]},
            {[s \in Range(SlugNames) |-> SomeEvents]},
            {[s \in Range(SlugNames) |-> SomeSub]})
  \cup
  Scenarios(SomeRoots, SomeTop, SomeDirs, SomeWsdir, SomeSlug,
            First(SomeWsfile, AllWsfile), First(SomeEvents, AllEvents),
            {[s \in Range(SlugNames) |-> SomeSub]})
  \cup
  Scenarios(SomeRoots, SomeTop, SomeDirs, SomeWsdir, SomeSlug,
            {[s \in Range(SlugNames) |-> SomeWsfile]},
            {[s \in Range(SlugNames) |-> SomeEvents]},
            First(SomeSub, AllSub))

InitialTrees == {TreeOf(sc) : sc \in InitialScenarios}

(***************************************************************************)
(* State.                                                                  *)
(***************************************************************************)
VARIABLES
  fs,           \* the filesystem
  now,          \* the clock
  pc,           \* where the run is: "idle" between runs
  idx,          \* index of the running loop over a static list
  slugs,        \* workspaceSlugs still to visit, the current one first
  entries,      \* entries of the current sub-collection still to visit
  syncedCount,  \* migrateFromLegacyConfigDir's count
  count,        \* syncWorkspaces' count
  subCount,     \* syncSubdirectory's count
  result,       \* how the last run ended: "none", "returned", "threw"
  runs,         \* runs started
  \* history, for stating the properties
  fs0,          \* the filesystem before the first run
  runStart,     \* the filesystem when the current (or last) run started
  clean,        \* no call has failed in the current (or last) run
  prevClean,    \* the run before it returned without a failed call
  runWrites,    \* write calls (mkdirSync, cpSync) of the run so far
  faults,       \* calls that have failed, over all runs
  failed,       \* canonical paths of the units a failed call has hit in the run
  prevFailed,   \* ... in the run before it
  applied,      \* canonical paths of the units that copied or overwrote in the run
  dropped,      \* entries the workspaces listing of the run dropped: statSync threw
  last,         \* the unit evaluated by the last step
  visited,      \* the units evaluated in the run so far, each with its outcome
  \* two installed copies of the host launched at the same time
  procs,        \* of each: where it is, its units to come, its writes to come
  \* a run that takes its units in any order
  pool          \* where it is, its units to come, its count

ctrl == <<pc, idx, slugs, entries>>
counts == <<syncedCount, count, subCount>>
hist ==
  <<fs0, runStart, clean, prevClean, runWrites, faults, failed, prevFailed, applied, dropped,
    last, visited>>
others == <<procs, pool>>
vars == <<fs, now, ctrl, counts, result, runs, hist, others>>

InOrder(names, S) == SelectSeq(names, LAMBDA n : n \in S)

\* the two copies of the host, and a copy that has not started its run
Procs == {"A", "B"}
IdleProc == [pc |-> "idle", todo |-> << >>, ops |-> << >>, gain |-> 0, ret |-> 0]
\* the run in any order before its start; `swapped` says that a unit was
\* taken before one that precedes it in the code's order
IdlePool == [pc |-> "idle", todo |-> << >>, ret |-> 0, swapped |-> FALSE]

\* the failures a step may meet, of those its calls can raise
May(F) == IF faults < MaxFaults THEN F ELSE {NoFault}
Failed(fault) == IF fault.op = "none" THEN 0 ELSE 1

legacyWorkspacesDir == join(LEGACY_DIR, "workspaces")
targetWorkspacesDir == join(CONFIG_DIR, "workspaces")

\* the record of a step: the kind of unit, its target path, what the two
\* sides held before the step, and what the unit did
Step(kind, source, target, fault, r) ==
  [kind |-> kind, unit |-> target, fault |-> fault.op,
   src |-> IF source \in DOMAIN fs THEN fs[source] ELSE Absent,
   dst |-> IF target \in DOMAIN fs THEN fs[target] ELSE Absent,
   outcome |-> r.outcome, ret |-> r.ret, writes |-> r.writes, logs |-> r.logs]

Init ==
  /\ fs \in InitialTrees
  /\ now = 1
  /\ pc = "idle" /\ idx = 1 /\ slugs = << >> /\ entries = << >>
  /\ syncedCount = 0 /\ count = 0 /\ subCount = 0
  /\ result = "none" /\ runs = 0
  /\ fs0 = fs /\ runStart = fs /\ clean = TRUE /\ prevClean = FALSE /\ runWrites = 0
  /\ faults = 0 /\ failed = {} /\ prevFailed = {} /\ applied = {} /\ dropped = {}
  /\ last = [kind |-> "init", unit |-> << >>, fault |-> "none", src |-> Absent,
             dst |-> Absent, outcome |-> "skip", ret |-> 0, writes |-> 0, logs |-> 0]
  /\ visited = << >>
  /\ procs = [i \in Procs |-> IdleProc]
  /\ pool = IdlePool

\* the units a failed call hits: the unit that made the call or, for the
\* statSync of the listing, the workspaces the listing drops
failedUnits(step, fault) ==
  CASE fault.op = "none" -> {}
    [] fault.op = "stat" /\ step.kind = "listWorkspaces" -> {join(step.unit, e) : e \in fault.done}
    [] OTHER -> {step.unit}

\* what a step leaves of the history
Record(step, fault, r) ==
  /\ last' = step
  /\ visited' = Append(visited, [unit |-> step.unit, outcome |-> r.outcome])
  /\ failed' = failed \cup failedUnits(step, fault)
  /\ applied' = applied \cup (IF r.outcome \in {"copy", "overwrite"} THEN {step.unit} ELSE {})
  /\ dropped' = dropped \cup (IF step.kind = "listWorkspaces" THEN fault.done ELSE {})
  /\ clean' = (clean /\ fault.op = "none")
  /\ runWrites' = runWrites + r.writes
  /\ faults' = faults + Failed(fault)
  /\ UNCHANGED <<fs0, runStart, prevClean, prevFailed, now, runs, others>>

(***************************************************************************)
(* migrateFromLegacyConfigDir, lines 32-41 and 52: the guard and the       *)
(* canonical root.  The mkdirSync of line 40 is in no try block.           *)
(***************************************************************************)
ensureRootFaults(f) ==
  IF existsSync(f, LEGACY_DIR) /\ ~existsSync(f, CONFIG_DIR)
    THEN {NoFault, Fault("mkdir", {})} ELSE {NoFault}

\* (mutant) the canonical root is ensured before the guard
ensureRootFirst(f, fault) ==
  LET made == ~existsSync(f, CONFIG_DIR)
      f1 == IF made THEN mkdirSync(f, CONFIG_DIR) ELSE f
      w1 == IF made THEN 1 ELSE 0
  IN  IF fault.op = "mkdir" THEN Res(f, 0, "throw", 1, 1)
      ELSE IF ~existsSync(f, LEGACY_DIR) THEN Res(f1, 0, "return", w1, 0)
      ELSE Res(f1, 0, IF made THEN "mkdir" ELSE "enter", w1, 1)

\* (mutant) the canonical root is not made
ensureRootNoMkdir(f, fault) ==
  IF ~existsSync(f, LEGACY_DIR) THEN Res(f, 0, "return", 0, 0)
  ELSE Res(f, 0, "enter", 0, 1)

ensureRoot(f, fault) ==
  IF ~existsSync(f, LEGACY_DIR) THEN Res(f, 0, "return", 0, 0)
  ELSE IF ~existsSync(f, CONFIG_DIR)
    THEN (IF fault.op = "mkdir" THEN Res(f, 0, "throw", 1, 1)
                                ELSE Res(mkdirSync(f, CONFIG_DIR), 0, "mkdir", 1, 1))
    ELSE Res(f, 0, "enter", 0, 1)

\* (mutant) the counter outlives the run: a run adds to what the runs before
\* it counted
StartKeepsCount ==
  /\ pc = "idle" /\ runs < MaxRuns
  /\ \E fault \in May(ensureRootFaults(fs)) :
       LET r == ensureRoot(fs, fault)
       IN  /\ fs' = r.fs
           /\ pc' = IF r.outcome \in {"return", "throw"} THEN "idle" ELSE "topLevelFiles"
           /\ result' = CASE r.outcome = "return" -> "returned"
                          [] r.outcome = "throw" -> "threw"
                          [] OTHER -> "none"
           /\ last' = Step("start", LEGACY_DIR, CONFIG_DIR, fault, r)
           /\ visited' = <<[unit |-> CONFIG_DIR, outcome |-> r.outcome]>>
           /\ clean' = (fault.op = "none")
           /\ runWrites' = r.writes
           /\ faults' = faults + Failed(fault)
           /\ failed' = (IF fault.op = "none" THEN {} ELSE {CONFIG_DIR})
           /\ applied' = {} /\ dropped' = {}
  /\ idx' = 1 /\ slugs' = << >> /\ entries' = << >>
  /\ syncedCount' = syncedCount /\ count' = 0 /\ subCount' = 0
  /\ runs' = runs + 1
  /\ runStart' = fs
  /\ prevClean' = (clean /\ result = "returned")
  /\ prevFailed' = failed
  /\ UNCHANGED <<fs0, now, others>>

Start ==
  /\ pc = "idle" /\ runs < MaxRuns
  /\ \E fault \in May(ensureRootFaults(fs)) :
       LET r == ensureRoot(fs, fault)
       IN  /\ fs' = r.fs
           /\ pc' = IF r.outcome \in {"return", "throw"} THEN "idle" ELSE "topLevelFiles"
           /\ result' = CASE r.outcome = "return" -> "returned"
                          [] r.outcome = "throw" -> "threw"
                          [] OTHER -> "none"
           /\ last' = Step("start", LEGACY_DIR, CONFIG_DIR, fault, r)
           /\ visited' = <<[unit |-> CONFIG_DIR, outcome |-> r.outcome]>>
           /\ clean' = (fault.op = "none")
           /\ runWrites' = r.writes
           /\ faults' = faults + Failed(fault)
           /\ failed' = (IF fault.op = "none" THEN {} ELSE {CONFIG_DIR})
           /\ applied' = {} /\ dropped' = {}
  /\ idx' = 1 /\ slugs' = << >> /\ entries' = << >>
  /\ syncedCount' = 0 /\ count' = 0 /\ subCount' = 0
  /\ runs' = runs + 1
  /\ runStart' = fs
  /\ prevClean' = (clean /\ result = "returned")
  /\ prevFailed' = failed
  /\ UNCHANGED <<fs0, now, others>>

(***************************************************************************)
(* lines 54-58: one iteration of the loop over topLevelFiles               *)
(***************************************************************************)
TopLevelFile ==
  /\ pc = "topLevelFiles"
  /\ LET file == topLevelFiles[idx]
         source == join(LEGACY_DIR, file)
         target == join(CONFIG_DIR, file)
     IN  \E fault \in May(syncFileFaults(fs, source, target)) :
           LET r == syncFile(fs, source, target, now, fault)
           IN  /\ fs' = r.fs
               /\ syncedCount' = syncedCount + r.ret
               /\ Record(Step("topLevelFile", source, target, fault, r), fault, r)
  /\ IF idx < Len(topLevelFiles)
       THEN idx' = idx + 1 /\ pc' = pc
       ELSE idx' = 1 /\ pc' = "topLevelDirs"
  /\ UNCHANGED <<slugs, entries, count, subCount, result>>

(***************************************************************************)
(* lines 71-86: one iteration of the loop over topLevelDirs                *)
(***************************************************************************)
TopLevelDir ==
  /\ pc = "topLevelDirs"
  /\ LET dir == topLevelDirs[idx]
         source == join(LEGACY_DIR, dir)
         target == join(CONFIG_DIR, dir)
     IN  \E fault \in May(syncTopLevelDirFaults(fs, source, target)) :
           LET r == syncTopLevelDir(fs, source, target, now, fault)
           IN  /\ fs' = r.fs
               /\ syncedCount' = syncedCount + r.ret
               /\ Record(Step("topLevelDir", source, target, fault, r), fault, r)
  /\ IF idx < Len(topLevelDirs)
       THEN idx' = idx + 1 /\ pc' = pc
       ELSE idx' = 1 /\ pc' = "syncWorkspaces"
  /\ UNCHANGED <<slugs, entries, count, subCount, result>>

(***************************************************************************)
(* syncWorkspaces, lines 141-151: the guard and the listing                *)
(***************************************************************************)
listWorkspacesFaults(f) ==
  IF existsSync(f, legacyWorkspacesDir) THEN listFaults(f, legacyWorkspacesDir) ELSE {NoFault}

listWorkspaces(f, fault) ==
  IF ~existsSync(f, legacyWorkspacesDir) THEN Res(f, 0, "skip", 0, 0)
  ELSE IF fault.op = "readdir" THEN Res(f, 0, "error", 0, 1)
  ELSE Res(f, 0, "list", 0, 0)

ListWorkspaces ==
  /\ pc = "syncWorkspaces"
  /\ \E fault \in May(listWorkspacesFaults(fs)) :
       LET r == listWorkspaces(fs, fault)
           found == IF r.outcome = "list"
                      THEN InOrder(SlugNames, workspaceSlugs(fs, legacyWorkspacesDir, fault.done))
                      ELSE << >>
       IN  /\ slugs' = found
           /\ pc' = IF found = << >> THEN "finish" ELSE "workspace"
           /\ Record(Step("listWorkspaces", legacyWorkspacesDir, targetWorkspacesDir, fault, r),
                     fault, r)
  /\ UNCHANGED <<fs, idx, entries, counts, result>>

(***************************************************************************)
(* lines 153-168: one workspace of the loop; a workspace the target lacks  *)
(* is copied whole, and the loop continues with the next one               *)
(***************************************************************************)
syncWorkspaceFaults(f, legacyWs, targetWs) ==
  IF existsSync(f, targetWs) THEN {NoFault} ELSE copyWorkspaceFaults(f, legacyWs)

\* (mutant) no `continue`: the parts of a workspace just copied are
\* reconciled as well
syncWorkspaceFallsThrough(f, legacyWs, targetWs, t, fault) ==
  IF ~existsSync(f, targetWs)
    THEN [copyWorkspace(f, legacyWs, targetWs, t, fault) EXCEPT !.outcome = "merge"]
    ELSE Res(f, 0, "merge", 0, 0)

syncWorkspace(f, legacyWs, targetWs, t, fault) ==
  IF ~existsSync(f, targetWs)
    THEN copyWorkspace(f, legacyWs, targetWs, t, fault)
    ELSE Res(f, 0, "merge", 0, 0)

\* (mutant) a failed unit ends the loop over the workspaces: its error
\* reaches the catch of line 186
NextWorkspaceAbort ==
  /\ slugs' = IF last'.outcome = "error" THEN << >> ELSE Tail(slugs)
  /\ pc' = IF slugs' = << >> THEN "finish" ELSE "workspace"
  /\ idx' = 1

\* (mutant) a workspace whose copy failed is tried again
NextWorkspaceRetry ==
  /\ slugs' = IF last'.outcome = "error" THEN slugs ELSE Tail(slugs)
  /\ pc' = IF slugs' = << >> THEN "finish" ELSE "workspace"
  /\ idx' = 1

\* the next workspace of the loop, or the end of syncWorkspaces
NextWorkspace ==
  /\ slugs' = Tail(slugs)
  /\ pc' = IF Tail(slugs) = << >> THEN "finish" ELSE "workspace"
  /\ idx' = 1

Workspace ==
  /\ pc = "workspace"
  /\ LET legacyWs == join(legacyWorkspacesDir, Head(slugs))
         targetWs == join(targetWorkspacesDir, Head(slugs))
     IN  \E fault \in May(syncWorkspaceFaults(fs, legacyWs, targetWs)) :
           LET r == syncWorkspace(fs, legacyWs, targetWs, now, fault)
           IN  /\ fs' = r.fs
               /\ count' = count + r.ret
               /\ Record(Step("workspace", legacyWs, targetWs, fault, r), fault, r)
               /\ IF r.outcome = "merge"
                    THEN pc' = "wsFiles" /\ idx' = 1 /\ slugs' = slugs
                    ELSE NextWorkspace
  /\ UNCHANGED <<entries, syncedCount, subCount, result>>

(***************************************************************************)
(* lines 172-176: one workspace-level file                                 *)
(***************************************************************************)
WsFile ==
  /\ pc = "wsFiles"
  /\ LET file == wsFiles[idx]
         source == join2(legacyWorkspacesDir, Head(slugs), file)
         target == join2(targetWorkspacesDir, Head(slugs), file)
     IN  \E fault \in May(syncFileFaults(fs, source, target)) :
           LET r == syncFile(fs, source, target, now, fault)
           IN  /\ fs' = r.fs
               /\ count' = count + r.ret
               /\ Record(Step("wsFile", source, target, fault, r), fault, r)
  /\ IF idx < Len(wsFiles)
       THEN idx' = idx + 1 /\ pc' = pc
       ELSE idx' = 1 /\ pc' = "events"
  /\ UNCHANGED <<slugs, entries, syncedCount, subCount, result>>

(***************************************************************************)
(* line 179: events.jsonl                                                  *)
(***************************************************************************)
WsEvents ==
  /\ pc = "events"
  /\ LET legacyWs == join(legacyWorkspacesDir, Head(slugs))
         targetWs == join(targetWorkspacesDir, Head(slugs))
         source == join(legacyWs, "events.jsonl")
         target == join(targetWs, "events.jsonl")
     IN  \E fault \in May(syncEventsFileFaults(fs, source, target)) :
           LET r == syncEventsFile(fs, legacyWs, targetWs, now, fault)
           IN  /\ fs' = r.fs
               /\ count' = count + r.ret
               /\ Record(Step("events", source, target, fault, r), fault, r)
  /\ pc' = "wsSubdirs" /\ idx' = 1
  /\ UNCHANGED <<slugs, entries, syncedCount, subCount, result>>

(***************************************************************************)
(* lines 182-184 and 233-275: one sub-collection, then its entries         *)
(***************************************************************************)
\* the next sub-collection of the workspace, or the next workspace
NextSubdir ==
  IF idx < Len(wsSubdirs)
    THEN idx' = idx + 1 /\ pc' = "wsSubdirs" /\ slugs' = slugs
    ELSE NextWorkspace

WsSubdir ==
  /\ pc = "wsSubdirs"
  /\ LET sourceDir == join2(legacyWorkspacesDir, Head(slugs), wsSubdirs[idx])
         targetDir == join2(targetWorkspacesDir, Head(slugs), wsSubdirs[idx])
     IN  \E fault \in May(syncSubdirectoryFaults(fs, sourceDir, targetDir)) :
           LET r == syncSubdirectory(fs, sourceDir, targetDir, now, fault)
               found == IF r.outcome = "union"
                          THEN InOrder(EntryNames, readdirSync(fs, sourceDir))
                          ELSE << >>
           IN  /\ fs' = r.fs
               /\ count' = count + r.ret
               /\ subCount' = 0
               /\ entries' = found
               /\ Record(Step("subdir", sourceDir, targetDir, fault, r), fault, r)
               /\ IF found # << >>
                    THEN pc' = "entries" /\ idx' = idx /\ slugs' = slugs
                    ELSE NextSubdir
  /\ UNCHANGED <<syncedCount, result>>

Entry ==
  /\ pc = "entries"
  /\ LET sourceEntry ==
           join(join2(legacyWorkspacesDir, Head(slugs), wsSubdirs[idx]), Head(entries))
         targetEntry ==
           join(join2(targetWorkspacesDir, Head(slugs), wsSubdirs[idx]), Head(entries))
     IN  \E fault \in May(syncEntryFaults(fs, sourceEntry, targetEntry)) :
           LET r == syncEntry(fs, sourceEntry, targetEntry, now, fault)
           IN  /\ fs' = r.fs
               /\ subCount' = subCount + r.ret
               /\ Record(Step("entry", sourceEntry, targetEntry, fault, r), fault, r)
               /\ entries' = Tail(entries)
               /\ IF Tail(entries) = << >>
                    THEN count' = count + subCount + r.ret /\ NextSubdir
                    ELSE count' = count /\ pc' = pc /\ idx' = idx /\ slugs' = slugs
  /\ UNCHANGED <<syncedCount, result>>

(***************************************************************************)
(* lines 89-96: add the workspaces' count, log the total, return           *)
(***************************************************************************)
Finish ==
  /\ pc = "finish"
  /\ syncedCount' = syncedCount + count
  /\ pc' = "idle" /\ result' = "returned"
  /\ last' = [kind |-> "finish", unit |-> CONFIG_DIR, fault |-> "none", src |-> Absent,
              dst |-> Absent, outcome |-> "return", ret |-> 0, writes |-> 0, logs |-> 1]
  /\ UNCHANGED <<fs, now, idx, slugs, entries, count, subCount, runs,
                 fs0, runStart, clean, prevClean, runWrites, faults, failed, prevFailed,
                 applied, dropped, visited, others>>

(***************************************************************************)
(* A whole run as a function: the units of migrateFromLegacyConfigDir      *)
(* applied one after the other, none of their calls failing.  A unit is    *)
(* named by its kind and its path relative to the two roots.               *)
(***************************************************************************)
Legacy(rel) == LEGACY_DIR \o rel
Config(rel) == CONFIG_DIR \o rel

Unit(kind, rel) == [kind |-> kind, rel |-> rel]

\* lines 34-41: the guard and the canonical root, before every unit
rootUnit == Unit("root", << >>)

\* lines 54-58, 71-86 and 89: the units of the top level, in the code's order
topLevelUnits ==
  [i \in 1..Len(topLevelFiles) |-> Unit("file", <<topLevelFiles[i]>>)]
  \o [i \in 1..Len(topLevelDirs) |-> Unit("dir", <<topLevelDirs[i]>>)]
  \o <<Unit("workspaces", <<"workspaces">>)>>

\* lines 149-153: the workspaces found under legacy's workspaces/
slugUnits(f) ==
  LET found == InOrder(SlugNames, workspaceSlugs(f, legacyWorkspacesDir, {}))
  IN  [i \in 1..Len(found) |-> Unit("workspace", <<"workspaces", found[i]>>)]

\* lines 172-184: the parts of a workspace present on both sides
workspaceUnits(ws) ==
  [i \in 1..Len(wsFiles) |-> Unit("file", join(ws, wsFiles[i]))]
  \o <<Unit("events", join(ws, "events.jsonl"))>>
  \o [i \in 1..Len(wsSubdirs) |-> Unit("subdir", join(ws, wsSubdirs[i]))]

\* lines 254-256: the entries of a sub-collection present on both sides
entryUnits(f, rel) ==
  LET found == InOrder(EntryNames, readdirSync(f, Legacy(rel)))
  IN  [i \in 1..Len(found) |-> Unit("entry", join(rel, found[i]))]

\* what the unit itself decides and does, before any unit nested in it
unitStep(f, u, t, fault) ==
  CASE u.kind = "root" -> ensureRoot(f, fault)
    [] u.kind = "file" -> syncFile(f, Legacy(u.rel), Config(u.rel), t, fault)
    [] u.kind = "dir" -> syncTopLevelDir(f, Legacy(u.rel), Config(u.rel), t, fault)
    [] u.kind = "workspaces" -> listWorkspaces(f, fault)
    [] u.kind = "workspace" -> syncWorkspace(f, Legacy(u.rel), Config(u.rel), t, fault)
    [] u.kind = "events" ->
         syncEventsFile(f, Legacy(dirname(u.rel)), Config(dirname(u.rel)), t, fault)
    [] u.kind = "subdir" -> syncSubdirectory(f, Legacy(u.rel), Config(u.rel), t, fault)
    [] u.kind = "entry" -> syncEntry(f, Legacy(u.rel), Config(u.rel), t, fault)

\* the units nested in a unit whose outcome says that they follow
nestedUnits(f, u, outcome) ==
  CASE outcome \in {"mkdir", "enter"} -> topLevelUnits
    [] outcome = "list" -> slugUnits(f)
    [] outcome = "merge" -> workspaceUnits(u.rel)
    [] outcome = "union" -> entryUnits(f, u.rel)
    [] OTHER -> << >>

\* the filesystem and the count after the units of `todo`, in order
RECURSIVE runUnits(_, _, _, _)
runUnits(f, n, todo, t) ==
  IF todo = << >> THEN [fs |-> f, ret |-> n]
  ELSE LET r == unitStep(f, Head(todo), t, NoFault)
       IN  runUnits(r.fs, n + r.ret, nestedUnits(f, Head(todo), r.outcome) \o Tail(todo), t)

\* migrateFromLegacyConfigDir at time t, no call failing
migrate(f, t) == runUnits(f, 0, <<rootUnit>>, t)

\* time passes between two launches (a run is short against the clock's
\* resolution here: all that one run writes carries one time)
Tick ==
  /\ pc = "idle" /\ runs >= 1 /\ now < MaxClock
  /\ now' = now + 1
  /\ UNCHANGED <<fs, ctrl, counts, result, runs, hist, others>>

Next ==
  \/ Start
  \/ TopLevelFile
  \/ TopLevelDir
  \/ ListWorkspaces
  \/ Workspace
  \/ WsFile
  \/ WsEvents
  \/ WsSubdir
  \/ Entry
  \/ Finish
  \/ Tick

Spec == Init /\ [][Next]_vars

(***************************************************************************)
(* Two copies of the host run migrateFromLegacyConfigDir at the same time  *)
(* on the same two roots.  Each walks its units in the code's order; the   *)
(* calls of the two interleave.  The reads by which a unit decides         *)
(* (existsSync, statSync, readdirSync) are one step: nothing removes a     *)
(* path and legacy is not written, so a write of the other copy between    *)
(* two of these reads shows no more than one before or after them.  Each   *)
(* write call (mkdirSync, cpSync) is a step of its own.                    *)
(***************************************************************************)
\* the write calls a unit makes once it has decided, in the code's order
writeOps(f, u, outcome) ==
  LET cp == [op |-> "cp", src |-> Legacy(u.rel), dst |-> Config(u.rel)]
      mk(p) == [op |-> "mkdir", src |-> p, dst |-> p]
  IN  CASE outcome = "mkdir" -> <<mk(CONFIG_DIR)>>
        [] outcome \in {"copy", "overwrite"} /\ u.kind = "workspace" -> <<mk(Config(u.rel)), cp>>
        [] outcome \in {"copy", "overwrite"} /\ u.kind = "file"
             /\ ~existsSync(f, dirname(Config(u.rel))) -> <<mk(dirname(Config(u.rel))), cp>>
        [] outcome \in {"copy", "overwrite"} -> <<cp>>
        [] OTHER -> << >>

doWrite(f, w, t) ==
  IF w.op = "mkdir" THEN mkdirSync(f, w.dst) ELSE cpSync(f, w.src, w.dst, t)

\* the sequential run is not under way: its state stays as it is
SeqIdle == UNCHANGED <<now, ctrl, counts, result, runs, hist>>

\* the host is launched
ProcStart(i) ==
  /\ procs[i].pc = "idle"
  /\ procs' = [procs EXCEPT ![i].pc = "units", ![i].todo = <<rootUnit>>]
  /\ UNCHANGED fs
  /\ SeqIdle /\ UNCHANGED pool

\* the next unit reads the two sides and decides
ProcDecide(i) ==
  /\ procs[i].pc = "units" /\ procs[i].ops = << >> /\ procs[i].todo # << >>
  /\ LET u == Head(procs[i].todo)
         r == unitStep(fs, u, now, NoFault)
     IN  procs' = [procs EXCEPT ![i].todo = nestedUnits(fs, u, r.outcome) \o Tail(procs[i].todo),
                                ![i].ops = writeOps(fs, u, r.outcome),
                                ![i].gain = r.ret]
  /\ UNCHANGED fs
  /\ SeqIdle /\ UNCHANGED pool

\* the next write call of the unit; the unit counts once its last is made
ProcWrite(i) ==
  /\ procs[i].pc = "units" /\ procs[i].ops # << >>
  /\ fs' = doWrite(fs, Head(procs[i].ops), now)
  /\ procs' = [procs EXCEPT ![i].ops = Tail(procs[i].ops),
                            ![i].ret = IF Tail(procs[i].ops) = << >>
                                         THEN @ + procs[i].gain ELSE @]
  /\ SeqIdle /\ UNCHANGED pool

\* no unit is left: the run returns
ProcFinish(i) ==
  /\ procs[i].pc = "units" /\ procs[i].ops = << >> /\ procs[i].todo = << >>
  /\ procs' = [procs EXCEPT ![i].pc = "done"]
  /\ UNCHANGED fs
  /\ SeqIdle /\ UNCHANGED pool

NextConcurrent ==
  \/ \E i \in Procs : ProcStart(i)
  \/ \E i \in Procs : ProcDecide(i)
  \/ \E i \in Procs : ProcWrite(i)
  \/ \E i \in Procs : ProcFinish(i)

SpecConcurrent == Init /\ [][NextConcurrent]_vars

(***************************************************************************)
(* The units of a run taken in any order: a unit is ready once the unit it *)
(* is nested in has decided (the parts of a workspace once the workspace   *)
(* is found on both sides, the entries of a sub-collection once it is      *)
(* found on both sides), and any ready unit may be the next.               *)
(***************************************************************************)
OrderStart ==
  /\ pool.pc = "idle"
  /\ pool' = [pool EXCEPT !.pc = "units", !.todo = <<rootUnit>>]
  /\ UNCHANGED <<fs, procs>>
  /\ SeqIdle

OrderUnit ==
  /\ pool.pc = "units"
  /\ \E k \in 1..Len(pool.todo) :
       LET u == pool.todo[k]
           r == unitStep(fs, u, now, NoFault)
       IN  /\ fs' = r.fs
           /\ pool' = [pool EXCEPT !.todo = SubSeq(pool.todo, 1, k - 1)
                                              \o nestedUnits(fs, u, r.outcome)
                                              \o SubSeq(pool.todo, k + 1, Len(pool.todo)),
                                   !.ret = @ + r.ret,
                                   !.swapped = @ \/ k > 1]
  /\ UNCHANGED procs
  /\ SeqIdle

OrderFinish ==
  /\ pool.pc = "units" /\ pool.todo = << >>
  /\ pool' = [pool EXCEPT !.pc = "done"]
  /\ UNCHANGED <<fs, procs>>
  /\ SeqIdle

NextAnyOrder == OrderStart \/ OrderUnit \/ OrderFinish

SpecAnyOrder == Init /\ [][NextAnyOrder]_vars

(***************************************************************************)
(* A run under way goes on: migrateFromLegacyConfigDir is synchronous code *)
(* without await, timer or callback, so the statement that follows in the  *)
(* code is executed: the control of the run moves.  Which step it takes,   *)
(* and whether a call of it fails, Next says.  Launches (Start) and the    *)
(* passing of time (Tick) are the host's and carry no fairness.            *)
(***************************************************************************)
\* the rest of a loop over a list of names taken in order
Suffixes(names) == {SubSeq(names, i, Len(names)) : i \in 1..(Len(names) + 1)}
Listings(names) == UNION {Suffixes(InOrder(names, S)) : S \in SUBSET Range(names)}

\* the positions a run can be at
ControlStates ==
  {"idle", "topLevelFiles", "topLevelDirs", "syncWorkspaces", "workspace",
   "wsFiles", "events", "wsSubdirs", "entries", "finish"}
  \X (1..(Len(topLevelFiles) + Len(topLevelDirs) + Len(wsFiles) + Len(wsSubdirs)))
  \X Listings(SlugNames) \X Listings(EntryNames)

\* the run is under way and its control moves
Advance ==
  /\ pc # "idle"
  /\ \E c \in ControlStates : pc' = c[1] /\ idx' = c[2] /\ slugs' = c[3] /\ entries' = c[4]

SpecLive == Init /\ [][Next]_vars /\ WF_ctrl(Advance)

TypeOK ==
  /\ DOMAIN fs = AllPaths
  /\ \A p \in AllPaths : fs[p].kind \in {"none", "dir", "file"}
  /\ now \in 1..MaxClock
  /\ pc \in {"idle", "topLevelFiles", "topLevelDirs", "syncWorkspaces", "workspace",
             "wsFiles", "events", "wsSubdirs", "entries", "finish"}

(***************************************************************************)
(* Properties.                                                             *)
(***************************************************************************)
\* a run has returned, and no run is under way
RunDone == pc = "idle" /\ runs >= 1 /\ result = "returned"
\* ... and none of its calls failed
CleanRunDone == RunDone /\ clean

\* the workspaces a run reconciles part by part: a directory on the legacy
\* side, present on the canonical side when the run started
MergedSlugs ==
  {s \in Range(SlugNames) :
     /\ runStart[Legacy(<<"workspaces", s>>)].kind = "dir"
     /\ existsSync(runStart, Config(<<"workspaces", s>>))}

\* the workspaces a run copies whole
MissingSlugs ==
  {s \in Range(SlugNames) :
     /\ runStart[Legacy(<<"workspaces", s>>)].kind = "dir"
     /\ ~existsSync(runStart, Config(<<"workspaces", s>>))}

\* the relative paths of the files reconciled by modification time
NewerWinsPaths ==
  {<<f>> : f \in Range(topLevelFiles)}
  \cup {<<"workspaces", s, f>> : s \in MergedSlugs, f \in Range(wsFiles)}

\* the same bytes at dst as at src, whatever the modification time
SameContent(f, src, g, dst) ==
  /\ g[dst].kind = f[src].kind
  /\ f[src].kind = "file" => g[dst].data = f[src].data

\* C1 (as claimed): idempotence. When a run without a failed call follows a
\* run without a failed call, the second leaves every canonical path as the
\* first left it, makes no write call and counts 0.
C1_Idempotent ==
  (CleanRunDone /\ runs >= 2 /\ prevClean) =>
    /\ \A p \in ConfigPaths : fs[p] = runStart[p]
    /\ runWrites = 0
    /\ syncedCount = 0

\* C2: the legacy tree is never written: every legacy path holds, in every
\* state of every run, what it held before the first run (existence,
\* content, size, modification time).
C2_LegacyUntouched == \A p \in LegacyPaths : fs[p] = fs0[p]

\* two runs are over, one call failed, and the canonical tree has changed
C2_Witness ==
  /\ pc = "idle" /\ runs = 2 /\ faults = 1
  /\ \E p \in ConfigPaths : fs[p] # fs0[p]
  /\ \E p \in ConfigPaths : fs0[p].kind = "file" /\ fs[p].kind = "file" /\ fs[p].data # fs0[p].data

C4_NeverThrows == result # "threw"

\* C5: a run that finds no legacy root returns at once: the filesystem is
\* as it was (the canonical root is not created), no write call was made,
\* and the count is 0.
C5_AbsentLegacyNoOp ==
  (pc = "idle" /\ runs >= 1 /\ ~existsSync(runStart, LEGACY_DIR)) =>
    /\ fs = runStart
    /\ result = "returned"
    /\ runWrites = 0
    /\ syncedCount = 0
    /\ last.kind = "start"

\* a run has found neither root
C5_Witness ==
  /\ pc = "idle" /\ runs >= 1
  /\ ~existsSync(runStart, LEGACY_DIR) /\ ~existsSync(runStart, CONFIG_DIR)

\* what NewerWins asks of the target, given the two sides before
NewerWinsHolds(s, d, e) ==
  CASE s.kind = "none" -> e = d
    [] d.kind = "none" -> e.kind = "file" /\ e.data = s.data
    [] s.mtime > d.mtime -> e.kind = "file" /\ e.data = s.data
    [] OTHER -> e = d
NewerWinsCount(s, d) ==
  IF s.kind # "none" /\ (d.kind = "none" \/ s.mtime > d.mtime) THEN 1 ELSE 0

\* C6: NewerWins. A top-level file, or a file of a workspace present on
\* both sides, whose unit met no failure: with legacy newer (T2 > T1) the
\* target holds legacy's content and the unit counts 1; with T2 <= T1 the
\* target is unchanged and the unit counts 0; without the legacy file
\* nothing happens; without the canonical file the legacy file is copied
\* and counted.  Stated of the step, and of the whole run once it is over.
C6_NewerWins ==
  /\ (last.kind \in {"topLevelFile", "wsFile"} /\ last.fault = "none") =>
       /\ NewerWinsHolds(last.src, last.dst, fs[last.unit])
       /\ last.ret = NewerWinsCount(last.src, last.dst)
  /\ (CleanRunDone /\ existsSync(runStart, LEGACY_DIR)) =>
       \A r \in NewerWinsPaths :
         NewerWinsHolds(runStart[Legacy(r)], runStart[Config(r)], fs[Config(r)])

\* a newer legacy file has replaced the canonical one
C6_Witness ==
  /\ last.kind \in {"topLevelFile", "wsFile"} /\ last.outcome = "overwrite"
  /\ last.src.mtime > last.dst.mtime /\ fs[last.unit].data = last.src.data

\* what LargerWins asks of the target, given the two sides before
LargerWinsHolds(s, d, e) ==
  CASE s.kind = "none" -> e = d
    [] d.kind = "none" -> e.kind = "file" /\ e.data = s.data
    [] Len(s.data) > Len(d.data) -> e.kind = "file" /\ e.data = s.data
    [] OTHER -> e = d
LargerWinsCount(s, d) ==
  IF s.kind # "none" /\ (d.kind = "none" \/ Len(s.data) > Len(d.data)) THEN 1 ELSE 0

\* C7: LargerWins. events.jsonl of a workspace present on both sides, its
\* unit meeting no failure: the target is overwritten with legacy's content
\* (count 1) exactly when legacy has strictly more bytes; otherwise it is
\* unchanged (count 0); without the legacy file nothing happens; without
\* the canonical file the legacy file is copied and counted.
C7_LargerWins ==
  /\ (last.kind = "events" /\ last.fault = "none") =>
       /\ LargerWinsHolds(last.src, last.dst, fs[last.unit])
       /\ last.ret = LargerWinsCount(last.src, last.dst)
       /\ (last.outcome = "overwrite") <=>
            (last.src.kind = "file" /\ last.dst.kind = "file"
               /\ Len(last.src.data) > Len(last.dst.data))
  /\ (CleanRunDone /\ existsSync(runStart, LEGACY_DIR)) =>
       \A s \in MergedSlugs :
         LargerWinsHolds(runStart[Legacy(<<"workspaces", s, "events.jsonl">>)],
                         runStart[Config(<<"workspaces", s, "events.jsonl">>)],
                         fs[Config(<<"workspaces", s, "events.jsonl">>)])

\* a larger legacy log has replaced the canonical one
C7_Witness ==
  /\ last.kind = "events" /\ last.outcome = "overwrite"
  /\ Len(last.src.data) > Len(last.dst.data) /\ fs[last.unit].data = last.src.data

\* C8 (as claimed): whenever a unit overwrites a canonical file, the legacy
\* file was strictly newer than the canonical one when the unit decided.
C8_NeverOverwritesNewer ==
  last.outcome = "overwrite" => last.src.mtime > last.dst.mtime

\* the whole subtree of workspace s, side by side
SameWorkspace(f, g, s) ==
  \A rel \in WsRel(s) : SameContent(f, Legacy(rel), g, Config(rel))

\* C9: a workspace directory of legacy that canonical lacks is copied whole
\* by a run without failure: canonical then holds the same subtree (every
\* file and directory, listed or not, with the same bytes, and nothing
\* else), the unit counts exactly 1, and the run goes on to the next
\* workspace.  Stated of the step, and of the whole run once it is over.
C9_MissingWorkspaceCopied ==
  /\ (last.kind = "workspace" /\ last.fault = "none" /\ last.dst.kind = "none") =>
       /\ last.outcome = "copy" /\ last.ret = 1
       /\ SameWorkspace(fs, fs, last.unit[Len(last.unit)])
       /\ pc \in {"workspace", "finish"}
  /\ CleanRunDone => \A s \in MissingSlugs : SameWorkspace(runStart, fs, s)

\* a workspace with a file outside the fixed lists and a sub-collection
\* with an entry has been copied whole
C9_Witness ==
  /\ last.kind = "workspace" /\ last.outcome = "copy"
  /\ LET s == last.unit[Len(last.unit)]
     IN  /\ fs[Config(<<"workspaces", s, ExtraName>>)].kind = "file"
         /\ fs[Config(<<"workspaces", s, wsSubdirs[1], EntryNames[1]>>)].kind = "file"
         /\ runStart[Config(<<"workspaces", s>>)].kind = "none"

\* the sub-collections a run merges entry by entry: a directory on both
\* sides, in a workspace present on both sides
MergedSubdirs ==
  {<<"workspaces", s, d>> : s \in MergedSlugs, d \in Range(wsSubdirs)}
  \cap {rel \in RelPaths : runStart[Legacy(rel)].kind = "dir" /\ runStart[Config(rel)].kind = "dir"}

\* C10: entry-level union. For a sub-collection that is a directory on
\* both sides, in a workspace present on both sides, a run without failure
\* leaves in canonical the union of the two sets of entries; an entry
\* canonical already had is untouched, whatever legacy's entry of that name
\* holds; an entry it lacked is legacy's, and counts one change.
C10_EntryUnion ==
  /\ (last.kind = "entry" /\ last.fault = "none") =>
       IF last.dst.kind = "none"
         THEN /\ last.outcome = "copy" /\ last.ret = 1
              /\ fs[last.unit].kind = last.src.kind
              /\ fs[last.unit].data = last.src.data
         ELSE /\ last.outcome = "skip" /\ last.ret = 0
              /\ fs[last.unit] = last.dst
  /\ (last.kind = "entry" /\ entries = << >> /\ clean) =>
       LET rel == SubSeq(last.unit, Len(CONFIG_DIR) + 1, Len(last.unit) - 1)
       IN  subCount = Cardinality(readdirSync(runStart, Legacy(rel))
                                    \ readdirSync(runStart, Config(rel)))
  /\ CleanRunDone =>
       \A rel \in MergedSubdirs :
         /\ readdirSync(fs, Config(rel))
              = readdirSync(runStart, Legacy(rel)) \cup readdirSync(runStart, Config(rel))
         /\ \A e \in readdirSync(runStart, Config(rel)) :
              fs[join(Config(rel), e)] = runStart[join(Config(rel), e)]
         /\ \A e \in readdirSync(runStart, Legacy(rel)) \ readdirSync(runStart, Config(rel)) :
              SameContent(runStart, join(Legacy(rel), e), fs, join(Config(rel), e))

\* a run is over that copied one entry into a sub-collection and left
\* alone an entry that differs from legacy's entry of the same name
C10_Witness ==
  /\ CleanRunDone
  /\ \E rel \in MergedSubdirs :
       /\ \E e \in readdirSync(runStart, Legacy(rel)) : ~existsSync(runStart, join(Config(rel), e))
       /\ \E e \in readdirSync(runStart, Config(rel)) :
            /\ existsSync(runStart, join(Legacy(rel), e))
            /\ fs[join(Config(rel), e)].data # fs[join(Legacy(rel), e)].data

\* a top-level directory and what the model holds beneath it
TopDirRel(d) == {<<d>>, <<d, ChildName>>}

\* C11: CopyIfAbsent is coarse. A top-level directory that canonical has
\* when a run starts is left as it is by that run, with everything beneath
\* it, whatever legacy's directory holds; so is one that legacy lacks.  A
\* directory that legacy has and canonical lacks is copied whole by a unit
\* that meets no failure, which counts one change.
C11_CopyIfAbsentCoarse ==
  /\ \A d \in Range(topLevelDirs) :
       (existsSync(runStart, Config(<<d>>)) \/ ~existsSync(runStart, Legacy(<<d>>))) =>
         \A rel \in TopDirRel(d) : fs[Config(rel)] = runStart[Config(rel)]
  /\ (last.kind = "topLevelDir" /\ last.fault = "none") =>
       IF last.src.kind # "none" /\ last.dst.kind = "none"
         THEN /\ last.outcome = "copy" /\ last.ret = 1
              /\ \A rel \in TopDirRel(last.unit[Len(last.unit)]) :
                   SameContent(fs, Legacy(rel), fs, Config(rel))
         ELSE last.outcome = "skip" /\ last.ret = 0 /\ last.writes = 0
  /\ (CleanRunDone /\ existsSync(runStart, LEGACY_DIR)) =>
       \A d \in Range(topLevelDirs) :
         (existsSync(runStart, Legacy(<<d>>)) /\ ~existsSync(runStart, Config(<<d>>))) =>
           \A rel \in TopDirRel(d) : SameContent(runStart, Legacy(rel), fs, Config(rel))

\* two runs are over; canonical had the directory, empty, and has not
\* received the file legacy holds in its directory
C11_Witness ==
  /\ CleanRunDone /\ runs = 2
  /\ \E d \in Range(topLevelDirs) :
       /\ fs0[Config(<<d>>)].kind = "dir"
       /\ fs[Legacy(<<d, ChildName>>)].kind = "file"
       /\ fs[Config(<<d, ChildName>>)].kind = "none"
       /\ last.kind = "finish"

\* both copies of the host have returned
AllDone == \A i \in Procs : procs[i].pc = "done"

\* C12: concurrent invocation. With two runs at the same time on the same
\* roots, their calls interleaved in any order and each copy atomic, no
\* step removes a canonical path or changes its kind, and when both runs
\* have returned the canonical tree is the one a single run alone leaves.
C12_ConcurrentRuns ==
  [][/\ \A p \in ConfigPaths : fs[p].kind # "none" => fs'[p].kind = fs[p].kind
     /\ AllDone' => fs' = migrate(fs0, now).fs]_vars

\* the two runs have returned and both copied the same missing unit: they
\* count more between them than a single run does
C12_Witness ==
  /\ AllDone
  /\ \A i \in Procs : procs[i].ret >= 1
  /\ procs["A"].ret + procs["B"].ret > migrate(fs0, now).ret
  /\ fs = migrate(fs0, now).fs /\ fs # fs0

\* the run without the units at the canonical paths `skip`: they are
\* neither applied nor counted, nor are the units nested in them
RECURSIVE runUnitsExcept(_, _, _, _, _)
runUnitsExcept(f, n, todo, t, skip) ==
  IF todo = << >> THEN [fs |-> f, ret |-> n]
  ELSE IF Config(Head(todo).rel) \in skip THEN runUnitsExcept(f, n, Tail(todo), t, skip)
  ELSE LET r == unitStep(f, Head(todo), t, NoFault)
       IN  runUnitsExcept(r.fs, n + r.ret,
                          nestedUnits(f, Head(todo), r.outcome) \o Tail(todo), t, skip)
migrateExcept(f, t, skip) == runUnitsExcept(f, 0, <<rootUnit>>, t, skip)

\* p lies at or under none of the paths of S
Outside(p, S) == \A u \in S : ~IsPrefix(u, p)
\* ... and above none of them
Apart(p, S) == \A u \in S : ~IsPrefix(u, p) /\ ~IsPrefix(p, u)

\* C13: failure isolation. A unit whose own call fails (the statSync of a
\* comparison, a listing, a copy) counts zero and logs one error; the run
\* still returns.  Every canonical path that is neither under nor above a
\* failed unit then holds what the run without any failure leaves there; a
\* directory above a failed unit holds that, or what the run without the
\* failed units leaves there (the failed unit may or may not have made
\* it); the count is that of the run without the failed units.  (The canonical root is made before
\* the first unit, and the statSync of the workspaces listing drops its
\* entry without an error: they are no unit's call.)
C13_FailureIsolation ==
  /\ (last.fault # "none" /\ last.kind # "start"
        /\ ~(last.kind = "listWorkspaces" /\ last.fault = "stat")) =>
       last.ret = 0 /\ last.outcome = "error" /\ last.logs = 1
  /\ (pc = "idle" /\ runs >= 1 /\ CONFIG_DIR \notin failed) =>
       /\ result = "returned"
       /\ \E t \in 1..now :
            LET whole == migrate(runStart, t)
                rest == migrateExcept(runStart, t, failed)
            IN  /\ \A p \in ConfigPaths :
                     /\ Apart(p, failed) => fs[p] = whole.fs[p]
                     /\ Outside(p, failed) => fs[p] \in {whole.fs[p], rest.fs[p]}
                /\ syncedCount = rest.ret

\* a run is over in which the copy of a top-level file failed and a later
\* unit made its copy
C13_Witness ==
  /\ RunDone /\ failed = {Config(<<topLevelFiles[1]>>)}
  /\ syncedCount >= 1
  /\ migrate(runStart, now).ret > syncedCount

\* C14: change count. Every unit adds 1 to the count when it copied or
\* overwrote and its calls succeeded, and 0 when it skipped or failed; the
\* copy of a whole subtree (top-level directory, workspace, sub-collection)
\* adds 1 however many files and directories it holds, and so does each
\* entry copied into an existing sub-collection.  The count a run reports
\* is the number of units that copied or overwrote.
C14_ChangeCount ==
  /\ last.kind \in {"topLevelFile", "topLevelDir", "workspace", "wsFile", "events",
                    "subdir", "entry"} =>
       /\ last.ret = (IF last.outcome \in {"copy", "overwrite"} THEN 1 ELSE 0)
       /\ last.fault # "none" => last.outcome = "error"
       /\ last.outcome \in {"copy", "overwrite"} => last.unit \in applied
  /\ last.kind \in {"start", "listWorkspaces", "finish"} => last.ret = 0
  /\ RunDone => syncedCount = Cardinality(applied)
  /\ applied \cap failed = {}

\* a run is over that copied a workspace of several entries whole, copied
\* something else as well, and had a unit fail
C14_Witness ==
  /\ RunDone /\ ~clean /\ syncedCount = 2
  /\ \E s \in Range(SlugNames) :
       /\ Config(<<"workspaces", s>>) \in applied
       /\ Cardinality(Subtree(fs, Config(<<"workspaces", s>>))) > 2

\* the place of a step in a run
unitRank(kind) ==
  CASE kind = "start" -> 0
    [] kind = "topLevelFile" -> 1
    [] kind = "topLevelDir" -> 2
    [] kind = "listWorkspaces" -> 3
    [] kind \in {"workspace", "wsFile", "events", "subdir", "entry"} -> 4
    [] OTHER -> 5

\* every canonical path that holds something lies in a directory
Rooted ==
  \A p \in ConfigPaths : (existsSync(fs, p) /\ p # CONFIG_DIR) => fs[dirname(p)].kind = "dir"

\* C15: ordering. While units are evaluated both roots exist (the canonical
\* one was made if it was missing), and nothing is ever written under a
\* canonical directory that does not exist; the steps of a run come in the
\* order guard and root, top-level files, top-level directories, workspaces,
\* each static list in its own order and to its end.  A run on an existing
\* empty legacy root, its calls succeeding, leaves the canonical root in
\* place and counts 0.
C15_Ordering ==
  /\ [](/\ pc # "idle" => existsSync(fs, LEGACY_DIR) /\ existsSync(fs, CONFIG_DIR)
        /\ Rooted
        /\ (CleanRunDone /\ existsSync(runStart, LEGACY_DIR)
              /\ readdirSync(runStart, LEGACY_DIR) = {}) =>
             existsSync(fs, CONFIG_DIR) /\ syncedCount = 0 /\ runWrites <= 1)
  /\ [][last' # last =>
          /\ last'.kind = "start" \/ unitRank(last'.kind) >= unitRank(last.kind)
          /\ last'.kind = "start" => pc = "idle"
          /\ last'.kind = "topLevelFile" => last'.unit = Config(<<topLevelFiles[idx]>>)
          /\ last'.kind = "topLevelDir" => last'.unit = Config(<<topLevelDirs[idx]>>)
          /\ (last'.kind = "topLevelFile" /\ idx = 1) => last.kind = "start"
          /\ (last'.kind = "topLevelDir" /\ idx = 1) =>
               last.unit = Config(<<topLevelFiles[Len(topLevelFiles)]>>)
          /\ last'.kind = "listWorkspaces" =>
               last.unit = Config(<<topLevelDirs[Len(topLevelDirs)]>>)]_vars

\* a run on an empty legacy root has made the canonical root and counted 0
C15_Witness ==
  /\ CleanRunDone /\ readdirSync(runStart, LEGACY_DIR) = {}
  /\ existsSync(runStart, LEGACY_DIR) /\ ~existsSync(runStart, CONFIG_DIR)
  /\ existsSync(fs, CONFIG_DIR) /\ syncedCount = 0 /\ runWrites = 1

\* the entries of legacy's workspaces/ that a run takes for no workspace:
\* plain files, and entries whose statSync threw
Malformed ==
  {s \in Range(SlugNames) : runStart[Legacy(<<"workspaces", s>>)].kind = "file"} \cup dropped

\* C16: malformed legacy entries. An entry of legacy's workspaces/ that is
\* a plain file, or whose statSync fails, is filtered out by the listing,
\* which logs no error and counts nothing; nothing is ever written at or
\* under its canonical path; and the other workspaces are reconciled as
\* they are without it.
C16_MalformedEntries ==
  /\ (last.kind = "listWorkspaces" /\ last.outcome = "list") =>
       /\ Range(slugs) = {s \in Range(SlugNames) :
                            fs[Legacy(<<"workspaces", s>>)].kind = "dir"} \ dropped
       /\ last.logs = 0 /\ last.ret = 0 /\ last.writes = 0
  /\ runs >= 1 =>
       \A s \in Malformed : \A rel \in WsRel(s) :
         /\ fs[Config(rel)] = runStart[Config(rel)]
         /\ Outside(Config(rel), applied)
  /\ (RunDone /\ failed = {Config(<<"workspaces", s>>) : s \in dropped}) =>
       /\ \A s \in MissingSlugs \ Malformed : SameWorkspace(runStart, fs, s)
       /\ \E t \in 1..now :
            LET rest == migrateExcept(runStart, t, failed)
            IN  fs = rest.fs /\ syncedCount = rest.ret

\* a run is over that found a plain file among legacy's workspaces and has
\* copied a workspace next to it
C16_Witness ==
  /\ RunDone
  /\ \E s \in Malformed :
       /\ runStart[Legacy(<<"workspaces", s>>)].kind = "file"
       /\ ~existsSync(fs, Config(<<"workspaces", s>>))
  /\ \E s \in MissingSlugs : Config(<<"workspaces", s>>) \in applied

\* the steps that reconcile one part of a workspace, and the canonical
\* workspace a canonical path lies in
PartKinds == {"wsFile", "events", "subdir", "entry"}
WorkspaceOf(p) == SubSeq(p, 1, Len(CONFIG_DIR) + 2)

\* C17: the copy of a whole workspace excludes the reconciliation of its
\* parts.  A slug whose canonical workspace is missing when the slug is
\* examined is copied whole, counts exactly 1 when the copy succeeds, and
\* the run goes on to the next slug (or ends); a part of a workspace
\* (NewerWins file, events.jsonl, sub-collection, entry) is evaluated only
\* in a workspace that canonical had when the run started and that the run
\* has not copied whole.
C17_WholeCopyExclusive ==
  /\ (last.kind = "workspace" /\ last.dst.kind = "none") =>
       /\ last.outcome \in {"copy", "error"}
       /\ last.fault = "none" <=> last.outcome = "copy"
       /\ last.ret = (IF last.outcome = "copy" THEN 1 ELSE 0)
       /\ pc \in {"workspace", "finish"}
       /\ pc = "workspace" => join(targetWorkspacesDir, Head(slugs)) # last.unit
  /\ (last.kind = "workspace" /\ last.dst.kind # "none") =>
       last.outcome = "merge" /\ pc = "wsFiles" /\ fs[last.unit] = last.dst
  /\ last.kind \in PartKinds =>
       /\ existsSync(runStart, WorkspaceOf(last.unit))
       /\ WorkspaceOf(last.unit) \notin applied \cup failed
  /\ pc \in {"wsFiles", "events", "wsSubdirs", "entries"} =>
       existsSync(runStart, join(targetWorkspacesDir, Head(slugs)))
  /\ \A u \in applied \cup failed : \A v \in applied \cup failed : IsPrefix(u, v) => u = v

\* a workspace with parts has been copied whole, and the run is at the
\* next slug
C17_Witness ==
  /\ last.kind = "workspace" /\ last.outcome = "copy" /\ last.ret = 1
  /\ pc = "workspace"
  /\ fs[join(last.unit, "events.jsonl")].kind = "file"
  /\ fs[join(last.unit, wsSubdirs[1])].kind = "dir"

\* filesystem f with another modification time, or another size, for the
\* file at p (if there is one)
WithMtime(f, p, t) == IF f[p].kind = "file" THEN [f EXCEPT ![p].mtime = t] ELSE f
WithSize(f, p, n) ==
  IF f[p].kind = "file" THEN [f EXCEPT ![p].data = Bytes(f[p].data[1], n)] ELSE f

\* the filesystem the unit of the last step found: a unit on one file
\* writes that file only
Before == [fs EXCEPT ![last.unit] = last.dst]
SourceOf(unit) == Legacy(RelOf(unit))

\* C18: distinct comparison signals. What the unit of events.jsonl decided
\* and counted is what it decides and counts with any other modification
\* times of the two copies; what a NewerWins unit decided and counted is
\* what it decides and counts with any other sizes of the two copies.
\* LargerWins is applied to events.jsonl and to nothing else, NewerWins
\* never to events.jsonl.
C18_DistinctSignals ==
  /\ (last.kind = "events" /\ last.fault = "none") =>
       /\ \A t1, t2 \in 1..MaxTime :
            LET g == WithMtime(WithMtime(Before, SourceOf(last.unit), t1), last.unit, t2)
                r == syncEventsFile(g, dirname(SourceOf(last.unit)), dirname(last.unit),
                                    now, NoFault)
            IN  r.outcome = last.outcome /\ r.ret = last.ret
       /\ last.ret = LargerWinsCount(last.src, last.dst)
  /\ (last.kind \in {"topLevelFile", "wsFile"} /\ last.fault = "none") =>
       /\ \A n1, n2 \in 1..MaxSize :
            LET g == WithSize(WithSize(Before, SourceOf(last.unit), n1), last.unit, n2)
                r == syncFile(g, SourceOf(last.unit), last.unit, now, NoFault)
            IN  r.outcome = last.outcome /\ r.ret = last.ret
       /\ last.ret = NewerWinsCount(last.src, last.dst)
  /\ last.kind = "events" <=>
       (last.kind \in PartKinds /\ last.unit[Len(last.unit)] = "events.jsonl")
  /\ last.kind \in {"topLevelFile", "wsFile"} => last.unit[Len(last.unit)] # "events.jsonl"

\* a larger but older legacy events.jsonl has replaced the canonical one:
\* the two signals disagree, and size decided
C18_Witness ==
  /\ last.kind = "events" /\ last.outcome = "overwrite"
  /\ last.src.mtime < last.dst.mtime
  /\ NewerWinsCount(last.src, last.dst) = 0 /\ last.ret = 1

\* C19: order independence of units. A run that takes its units in any
\* order (a nested unit after the unit it is nested in) leaves the
\* canonical tree, and reports the count, of the run in the code's order.
C19_OrderIndependent ==
  pool.pc = "done" =>
    LET code == migrate(fs0, now)
    IN  fs = code.fs /\ pool.ret = code.ret

\* a run out of the code's order is over that has copied and overwritten
C19_Witness ==
  /\ pool.pc = "done" /\ pool.swapped
  /\ pool.ret >= 3
  /\ \E p \in ConfigPaths : fs0[p].kind = "file" /\ fs[p] # fs0[p]
  /\ \E p \in ConfigPaths : fs0[p].kind = "none" /\ fs[p].kind = "file"

\* the steps that evaluate a unit
UnitKinds == {"topLevelFile", "topLevelDir", "workspace"} \cup PartKinds

\* C20 (as claimed): single-step units. Every unit decides once and then
\* makes at most one write call (mkdirSync, cpSync), none when it skips.
C20_SingleStep ==
  last.kind \in UnitKinds =>
    /\ last.writes <= 1
    /\ last.outcome \in {"skip", "merge", "union"} => last.writes = 0

\* C21 (as claimed): logging. Every unit whose outcome is a skip, a copy,
\* an overwrite or an error has logged exactly one line.
C21_OneLogLinePerUnit ==
  (last.kind \in UnitKinds /\ last.outcome \in {"skip", "copy", "overwrite", "error"}) =>
    last.logs = 1

\* the planned resources: the listed top-level files and directories, the
\* workspace directories of legacy and, in each, the listed files,
\* events.jsonl, the listed sub-collections and their entries
PlannedRels ==
  {<<f>> : f \in Range(topLevelFiles)}
  \cup {<<d>> : d \in Range(topLevelDirs)}
  \cup UNION {WsRel(s) \ {<<"workspaces", s, ExtraName>>} :
                s \in {x \in Range(SlugNames) : runStart[Legacy(<<"workspaces", x>>)].kind = "dir"}}

\* C22: completeness of a failure-free run. After a run none of whose calls
\* failed, every planned resource that legacy had and canonical lacked when
\* the run started is in canonical with legacy's content: a file with
\* legacy's bytes, a directory with everything legacy holds beneath it.
C22_Complete ==
  CleanRunDone =>
    \A rel \in PlannedRels :
      (existsSync(runStart, Legacy(rel)) /\ ~existsSync(runStart, Config(rel))) =>
        \A q \in Subtree(runStart, Legacy(rel)) :
          SameContent(runStart, q, fs, Rebase(q, LEGACY_DIR, CONFIG_DIR))

\* a run without failure is over that copied a top-level file, a
\* sub-collection as a whole and an entry into an existing sub-collection;
\* a workspace file outside the lists, in a workspace present on both sides,
\* has not been copied
C22_Witness ==
  /\ CleanRunDone
  /\ \E rel \in PlannedRels :
       /\ Len(rel) = 1 /\ runStart[Legacy(rel)].kind = "file"
       /\ ~existsSync(runStart, Config(rel)) /\ fs[Config(rel)].kind = "file"
  /\ \E rel \in PlannedRels :
       /\ Len(rel) = 4 /\ existsSync(runStart, Config(dirname(rel)))
       /\ ~existsSync(runStart, Config(rel)) /\ fs[Config(rel)].kind = "file"
  /\ \E s \in MergedSlugs :
       /\ existsSync(fs, Legacy(<<"workspaces", s, ExtraName>>))
       /\ ~existsSync(fs, Config(<<"workspaces", s, ExtraName>>))

\* the most units one run can evaluate: guard and root, the static lists,
\* the listing, and every workspace with all its parts and entries
MaxUnits ==
  2 + Len(topLevelFiles) + Len(topLevelDirs)
    + Len(SlugNames) * (2 + Len(wsFiles) + Len(wsSubdirs) * (1 + Len(EntryNames)))

\* at each position of a run the step of that position has what it reads
Defined ==
  /\ ctrl \in ControlStates
  /\ pc = "topLevelFiles" => idx <= Len(topLevelFiles)
  /\ pc = "topLevelDirs" => idx <= Len(topLevelDirs)
  /\ pc \in {"workspace", "wsFiles", "events", "wsSubdirs", "entries"} => slugs # << >>
  /\ pc = "wsFiles" => idx <= Len(wsFiles)
  /\ pc \in {"wsSubdirs", "entries"} => idx <= Len(wsSubdirs)
  /\ pc = "entries" => entries # << >>
  /\ pc = "finish" => ENABLED Finish

\* C23: termination. Whatever the two trees hold and whichever calls fail,
\* a run that has started ends (it returns, or throws out of the root's
\* mkdirSync).  Every step of a run moves its control on and evaluates a
\* unit the run has not evaluated before, so a run evaluates no unit twice
\* and no more units than the plan has; no position of a run waits for
\* anything.
C23_Terminates ==
  /\ (pc # "idle") ~> (pc = "idle" /\ result \in {"returned", "threw"})
  /\ [](/\ Defined
        /\ \A i, j \in 1..Len(visited) : visited[i].unit = visited[j].unit => i = j
        /\ Len(visited) <= MaxUnits)
  /\ [][pc # "idle" =>
          /\ ctrl' # ctrl
          /\ Len(visited') = Len(visited) + (IF pc = "finish" THEN 0 ELSE 1)]_vars

\* a run has returned after a failed copy, having evaluated both
\* workspaces and the entries of a sub-collection
C23_Witness ==
  /\ RunDone /\ ~clean
  /\ \E i \in 1..Len(visited) : visited[i].outcome = "error"
  /\ \A s \in Range(SlugNames) :
       \E i \in 1..Len(visited) : visited[i].unit = Config(<<"workspaces", s>>)
  /\ \E i \in 1..Len(visited) : Len(visited[i].unit) = Len(CONFIG_DIR) + 4

\* C24 (as claimed): after a NewerWins unit has copied or overwritten a
\* canonical file, the modification time of the canonical file is not less
\* than that of the legacy file, wherever legacy's modification time lies
\* against the clock.
C24_CopyNotOlder ==
  (last.kind \in {"topLevelFile", "wsFile"} /\ last.outcome \in {"copy", "overwrite"}) =>
    fs[last.unit].mtime >= last.src.mtime

\* C25 (as claimed): a whole-workspace copy that fails leaves no canonical
\* directory for the workspace behind.
C25_FailedCopyLeavesNothing ==
  (last.kind = "workspace" /\ last.outcome = "error") => ~existsSync(fs, last.unit)

\* C26 (as claimed): recovery after failures. Whatever runs with failed
\* calls have left, the second of two runs without a failed call that
\* follow them changes nothing, makes no write call and counts 0; and a
\* run without a failed call evaluates every unit that a failed call hit
\* in the run before it (an entry of workspaces/ that is no directory is
\* no unit).
C26_Recovery ==
  /\ (CleanRunDone /\ prevClean /\ faults >= 1) =>
       /\ \A p \in ConfigPaths : fs[p] = runStart[p]
       /\ runWrites = 0
       /\ syncedCount = 0
  /\ (CleanRunDone /\ existsSync(runStart, LEGACY_DIR)) =>
       \A u \in prevFailed :
         ~(Len(u) = Len(targetWorkspacesDir) + 1 /\ fs[SourceOf(u)].kind = "file")
           => \E i \in 1..Len(visited) : visited[i].unit = u

\* the events.jsonl of workspace s, relative to the roots, and the size of
\* what a path holds (nothing has no bytes)
EventsRel(s) == <<"workspaces", s, "events.jsonl">>
SizeOf(n) == IF n.kind = "file" THEN Len(n.data) ELSE 0

CanonicalOnly(p) == existsSync(fs0, p) /\ ~existsSync(fs0, SourceOf(p))

\* C28: canonical-only data is never touched.  A canonical path that legacy
\* has no counterpart of holds, in every state of every run, what it held
\* before the first run (content and modification time).  A canonical
\* path that a run has changed has a counterpart in legacy, and lies at or
\* under the destination of a unit of the run that wrote, or is a
\* directory that was missing above such a destination (the canonical
\* root, workspaces/).  No step writes outside the canonical root.
C28_CanonicalOnlyUntouched ==
  /\ [](/\ \A p \in ConfigPaths : CanonicalOnly(p) => fs[p] = fs0[p]
        /\ \A p \in ConfigPaths :
             fs[p] # runStart[p] =>
               /\ existsSync(runStart, SourceOf(p))
               /\ \/ \E u \in applied \cup failed : IsPrefix(u, p)
                  \/ /\ runStart[p] = Absent /\ fs[p] = Dir
                     /\ p = CONFIG_DIR \/ \E u \in applied \cup failed : IsPrefix(p, u))
  /\ [][\A p \in AllPaths : fs'[p] # fs[p] => IsPrefix(CONFIG_DIR, p)]_vars

\* a run is over that has copied an entry into a sub-collection in which
\* canonical has an entry that legacy lacks
C28_Witness ==
  /\ CleanRunDone
  /\ \E rel \in MergedSubdirs :
       /\ \E e \in Range(EntryNames) :
            CanonicalOnly(join(Config(rel), e)) /\ existsSync(fs, join(Config(rel), e))
       /\ \E e \in Range(EntryNames) : join(Config(rel), e) \in applied

\* the canonical paths the run has changed so far, the root apart (it is
\* made before any unit runs)
WrittenInRun == {q \in ConfigPaths \ {CONFIG_DIR} : fs[q] # runStart[q]}

\* C29 (as stated): path exclusivity within a run.  No unit of a run writes
\* a canonical path that an earlier unit of that run has written, nor a
\* path beneath one.
C29_PathsDisjoint ==
  [][pc # "idle" =>
       \A p \in ConfigPaths :
         fs'[p] # fs[p] => \A q \in WrittenInRun : ~IsPrefix(q, p)]_vars

\* C29 (amended): the destinations of the units of one run are pairwise
\* distinct, and those of the units that write are never nested.  What a
\* unit writes lies at or beneath its own destination, except that a unit
\* makes the missing parent directory of its destination; the only path
\* two units of a run both write at or beneath is that parent, the
\* canonical `workspaces` directory.
C29_DestinationsDisjoint ==
  /\ [](/\ \A i, j \in 1..Len(visited) : visited[i].unit = visited[j].unit => i = j
        /\ \A u, v \in applied \cup failed : IsPrefix(u, v) => u = v
        /\ \A q \in WrittenInRun :
             \/ \E u \in applied \cup failed : IsPrefix(u, q)
             \/ q = targetWorkspacesDir /\ runStart[q] = Absent /\ fs[q] = Dir)
  /\ [][pc \notin {"idle", "finish"} =>
          \A p \in ConfigPaths :
            fs'[p] # fs[p] =>
              /\ \/ IsPrefix(last'.unit, p)
                 \/ p = dirname(last'.unit) /\ fs[p] = Absent /\ fs'[p] = Dir
              /\ \A q \in WrittenInRun : IsPrefix(q, p) => q = targetWorkspacesDir]_vars

\* two workspaces have been copied whole in a run that found no canonical
\* `workspaces` directory: the first copy made it, the second wrote beneath
C29_Witness ==
  /\ ~existsSync(runStart, targetWorkspacesDir)
  /\ \E s1, s2 \in Range(SlugNames) :
       /\ s1 # s2
       /\ join(targetWorkspacesDir, s1) \in applied
       /\ join(targetWorkspacesDir, s2) \in applied

\* what a path holds, the modification time apart
Content(node) == IF node.kind = "file" THEN [kind |-> "file", data |-> node.data] ELSE node
Contents(f) == [p \in AllPaths |-> Content(f[p])]

\* the run function with its decisions: the filesystem, the count and, in
\* order, what each unit decided, after the units of `todo` on filesystem f
\* at time t with no call failing
RECURSIVE decisions(_, _, _, _, _)
decisions(f, n, seen, todo, t) ==
  IF todo = << >> THEN [fs |-> f, ret |-> n, visited |-> seen]
  ELSE LET u == Head(todo)
           r == unitStep(f, u, t, NoFault)
           unit == IF u.kind = "events" THEN join(Config(dirname(u.rel)), "events.jsonl")
                   ELSE Config(u.rel)
       IN  decisions(r.fs, n + r.ret, Append(seen, [unit |-> unit, outcome |-> r.outcome]),
                     nestedUnits(f, u, r.outcome) \o Tail(todo), t)

\* C30: determinism without stored history.  A run in which no call fails
\* decides, writes and counts what the filesystem it started from
\* determines: every unit's decision, the canonical contents and the count
\* are those of the run function applied to that filesystem, whether the
\* run is the first, the second or the third and whether or not an earlier
\* run failed; they are the same at whatever time the run takes place, and
\* the modification times are those of a run at some time up to now.
C30_Deterministic ==
  CleanRunDone =>
    /\ \A t \in 1..MaxClock :
         LET d == decisions(runStart, 0, << >>, <<rootUnit>>, t)
         IN  /\ visited = d.visited
             /\ syncedCount = d.ret
             /\ Contents(fs) = Contents(d.fs)
    /\ \E t \in 1..now : fs = migrate(runStart, t).fs

\* a third run, after a run with a failed call, has copied something and
\* counted it
C30_Witness ==
  /\ CleanRunDone /\ runs = 3 /\ faults >= 1
  /\ syncedCount >= 1
  /\ \E i \in 1..Len(visited) : visited[i].outcome \in {"copy", "overwrite"}

====
